---- MODULE Spec2Model ----
(***************************************************************************)
(* DevConnector REST API: the auth middleware, the users / auth routes,    *)
(* the profile routes and the posts routes, as state machines over the     *)
(* persisted collections (users, profiles, posts).                         *)
(*                                                                         *)
(* Ids (ObjectId hex strings) are strings; a response is a record          *)
(* [status, body]; a body is a record tagged by its "type".                *)
(***************************************************************************)
EXTENDS Integers, Sequences, FiniteSets, TLC

VARIABLES
    now,        \* the clock, in seconds (a token's exp is compared against it)
    users,      \* the users collection: id -> identity document
    posts,      \* the posts collection: id -> post document
    nextPost,   \* number of post ids handed out so far
    nextUser,   \* number of user ids handed out so far
    profiles,   \* the profiles collection: owner id -> profile document
    nextEntry,  \* number of sub-document ids (experience, education, comment) handed out
    req,        \* the request handled last
    res,        \* the response sent to it
    reqUser,    \* req.user as attached by the auth middleware (Undefined if not)
    ran,        \* whether the route handler behind the middleware was invoked
    sent,       \* every response the request made res.send / res.json with, in order
    uncaught,   \* whether an exception or rejection escaped the handler's try/catch
    lastAdd,    \* history: the add-experience answered last and the list before it
    proc        \* in-flight register requests: process -> its position and locals

vars == <<now, users, nextUser, posts, nextPost, profiles, nextEntry, req, res, reqUser,
          ran, sent, uncaught, lastAdd, proc>>

----------------------------------------------------------------------------
(* Bounds of the model *)

MaxPosts == 1
MaxEntries == 2
MaxUsers == 2

(* Program constants *)

expiresIn == 360000

----------------------------------------------------------------------------
(* Values *)

Undefined == [type |-> "undefined"]

\* Request body strings are sequences of characters; an absent key is Undefined.
Str(chars) == [type |-> "string", val |-> chars]
\* a JSON number in a request body, with its decimal digits
Num(digits) == [type |-> "number", val |-> digits]
Secret == Str(<<"s", "e", "c", "r", "e", "t">>)

UserIds == {"u1", "u2"}
PostIdSeq == <<"p1", "p2", "p3", "p4">>
\* ids of sub-documents (experience, education, comment), in the order handed out
EntryIdSeq == <<"e1", "e2", "e3", "e4", "e5">>
ObjectIds == {PostIdSeq[i] : i \in 1..(MaxPosts + 1)}
MalformedId == "zz"
IdParams == ObjectIds \cup {MalformedId}

jwtSecret == "jwtSecret"
Secrets == {jwtSecret, "forged"}

\* req.header('x-auth-token'): undefined, the empty string, or a token
Absent == Undefined
Empty == [type |-> "string", val |-> ""]
JwtSign(payload, secret, opts, at) ==
    [type |-> "jwt", user |-> payload.user, aud |-> opts.audience,
     exp |-> at + opts.expiresIn, secret |-> secret]

gravatarUrl(email) == <<"//www.gravatar.com/avatar", email, "s=200&r=pg&d=mm">>
bcryptHash(password, salt) == [salt |-> salt, of |-> password]

SeedUser(name, email) ==
    [name |-> name, email |-> email, avatar |-> gravatarUrl(email),
     password |-> bcryptHash(Secret, 1), date |-> 0]
SeedUsers == [u \in UserIds |->
                IF u = "u1" THEN SeedUser("A", "a@x.com") ELSE SeedUser("B", "b@x.com")]

\* The clock of every behaviour: one validity window after the epoch, so that
\* a token issued at 0 has expired and one issued now has not.
Now == expiresIn

TokenFor(u, secret, at) ==
    JwtSign([user |-> [id |-> u]], secret,
            [expiresIn |-> expiresIn, audience |-> SeedUsers[u].email], at)

\* What a client may send: nothing, "", a token this server issued (possibly
\* long ago), or one signed with another secret.
Tokens == {Absent, Empty}
          \cup {TokenFor(u, jwtSecret, Now) : u \in UserIds}
          \cup {TokenFor("u1", "forged", Now), TokenFor("u2", jwtSecret, 0)}

----------------------------------------------------------------------------
(* Responses *)

Json(status, body) == [status |-> status, body |-> body]
Msg(status, m) == Json(status, [type |-> "msg", msg |-> m])
Errors(status, ms) == Json(status, [type |-> "errors", errors |-> ms])
Text(status, t) == Json(status, [type |-> "text", text |-> t])
NoRes == [status |-> 0, body |-> [type |-> "none"]]
NoReq == [route |-> "none", token |-> Undefined]
NoAdd == [kind |-> "none"]

----------------------------------------------------------------------------
(* middleware/auth *)

\* jwt.decode in place of jwt.verify: neither signature nor expiry is checked
JwtVerifyMutDecode(token, secret) == TRUE

\* jwt.verify(token, secret): throws unless the signature was made with
\* `secret` and the token has not expired (clockTimestamp >= exp)
JwtVerify(token, secret) == token.secret = secret /\ now < token.exp

\* pass: next() was called; user: req.user; res: the response sent by the gate
AuthGate(token) ==
    IF token = Absent \/ token = Empty
    THEN [pass |-> FALSE, user |-> Undefined, res |-> Msg(401, "No token, authorization denied")]
    ELSE IF JwtVerify(token, jwtSecret)
         THEN [pass |-> TRUE, user |-> token.user, res |-> NoRes]
         ELSE [pass |-> FALSE, user |-> Undefined, res |-> Msg(401, "Token is not valid")]

\* A request stopped by the gate: answered by the gate, handler not invoked.
Denied(r, g) ==
    /\ ~g.pass
    /\ req' = r
    /\ res' = g.res
    /\ reqUser' = Undefined
    /\ ran' = FALSE
    /\ sent' = <<g.res>>
    /\ uncaught' = FALSE

\* A request let through: the handler ran with req.user set and answered `out`.
Handled(r, g, out) ==
    /\ g.pass
    /\ req' = r
    /\ res' = out
    /\ reqUser' = g.user
    /\ ran' = TRUE
    /\ sent' = <<out>>
    /\ uncaught' = FALSE

----------------------------------------------------------------------------
(* routes/api/posts *)

IsObjectId(id) == id \in ObjectIds
Exists(id) == id \in DOMAIN posts
Without(f, k) == [x \in (DOMAIN f) \ {k} |-> f[x]]
With(f, k, v) == [x \in (DOMAIN f) \cup {k} |-> IF x = k THEN v ELSE f[x]]

\* likes.some(like => like.user.toString() === uid)
Liked(likes, uid) == \E i \in 1..Len(likes) : likes[i].user = uid
\* Array.prototype.map over a field
MapUser(likes) == [i \in 1..Len(likes) |-> likes[i].user]
MapId(entries) == [i \in 1..Len(entries) |-> entries[i].id]
\* Array.prototype.indexOf: the 0-based index of the first match, or -1
IndexOf(s, x) ==
    IF \E i \in 1..Len(s) : s[i] = x
    THEN (CHOOSE i \in 1..Len(s) : s[i] = x /\ \A j \in 1..(i - 1) : s[j] # x) - 1
    ELSE -1
\* Array.prototype.splice(start, 1): a negative start counts from the end
Splice1(s, start) ==
    LET len == Len(s)
        from == IF start < 0
                THEN (IF len + start < 0 THEN 0 ELSE len + start)
                ELSE (IF start > len THEN len ELSE start)
    IN  [j \in 1..(IF from < len THEN len - 1 ELSE len) |->
            IF j <= from THEN s[j] ELSE s[j + 1]]
\* push(x) in place of unshift(x)
UnshiftMutPush(s, x) == Append(s, x)

\* unshift(x)
Unshift(s, x) == <<x>> \o s

Texts == {"", "hi"}

\* validationResult(req) is empty and the handler body runs: lines 21-37
CreatePostHandler(r, g) ==
    LET id == PostIdSeq[nextPost + 1]
    IN  \/ /\ r.text = ""
           /\ Handled(r, g, Errors(400, <<"Text is required">>))
           /\ UNCHANGED <<posts, nextPost>>
        \* user is null: user.name throws a TypeError
        \/ /\ r.text # ""
           /\ g.user.id \notin DOMAIN users
           /\ Handled(r, g, Text(500, "Server Error"))
           /\ UNCHANGED <<posts, nextPost>>
        \/ /\ r.text # ""
           /\ g.user.id \in DOMAIN users
           /\ nextPost < MaxPosts
           /\ LET post == [id |-> id, user |-> g.user.id, text |-> r.text,
                           name |-> users[g.user.id].name,
                           avatar |-> users[g.user.id].avatar,
                           likes |-> <<>>, comments |-> <<>>, date |-> now]
              IN  /\ posts' = With(posts, id, post)
                  /\ nextPost' = nextPost + 1
                  /\ Handled(r, g, Json(200, [type |-> "post", post |-> post]))

CreatePostReq(tok, text) ==
        LET r == [route |-> "POST /api/posts", token |-> tok, text |-> text]
            g == AuthGate(tok)
        IN  \/ Denied(r, g) /\ UNCHANGED <<posts, nextPost>>
            \/ g.pass /\ CreatePostHandler(r, g)

CreatePost == \E tok \in Tokens, text \in Texts : CreatePostReq(tok, text)

\* findById(id): a CastError for a malformed id (err.kind === 'ObjectId'),
\* else the document or null
GetPostHandler(r, g) ==
    /\ UNCHANGED <<posts, nextPost>>
    /\ Handled(r, g,
         IF ~IsObjectId(r.id) THEN Msg(400, "Post not found")
         ELSE IF ~Exists(r.id) THEN Msg(404, "Post not found")
         ELSE Json(200, [type |-> "post", post |-> posts[r.id]]))

GetPostReq(tok, id) ==
        LET r == [route |-> "GET /api/posts/:id", token |-> tok, id |-> id]
            g == AuthGate(tok)
        IN  \/ Denied(r, g) /\ UNCHANGED <<posts, nextPost>>
            \/ g.pass /\ GetPostHandler(r, g)

GetPost == \E tok \in Tokens, id \in IdParams : GetPostReq(tok, id)

OwnsMutAnyone(post, uid) == TRUE

\* post.user.toString() === req.user.id
Owns(post, uid) == post.user = uid

DeletePostHandler(r, g) ==
    /\ UNCHANGED nextPost
    /\ \/ /\ ~IsObjectId(r.id)
          /\ Handled(r, g, Msg(400, "Post not found"))
          /\ UNCHANGED posts
       \/ /\ IsObjectId(r.id) /\ ~Exists(r.id)
          /\ Handled(r, g, Msg(404, "Post not found"))
          /\ UNCHANGED posts
       \/ /\ Exists(r.id) /\ ~Owns(posts[r.id], g.user.id)
          /\ Handled(r, g, Msg(401, "User not authorized to delete post"))
          /\ UNCHANGED posts
       \/ /\ Exists(r.id) /\ Owns(posts[r.id], g.user.id)
          /\ posts' = Without(posts, r.id)
          /\ Handled(r, g, Msg(200, "Post removed"))

DeletePostReq(tok, id) ==
        LET r == [route |-> "DELETE /api/posts/:id", token |-> tok, id |-> id]
            g == AuthGate(tok)
        IN  \/ Denied(r, g) /\ UNCHANGED <<posts, nextPost>>
            \/ g.pass /\ DeletePostHandler(r, g)

DeletePost == \E tok \in Tokens, id \in IdParams : DeletePostReq(tok, id)

AlreadyLikedMutNever(likes, uid) == FALSE

\* post.likes.some(like => like.user.toString() === req.user.id)
AlreadyLiked(likes, uid) == Liked(likes, uid)

LikeHandler(r, g) ==
    /\ UNCHANGED nextPost
    /\ \/ /\ ~IsObjectId(r.id)
          /\ Handled(r, g, Msg(400, "Post not found"))
          /\ UNCHANGED posts
       \* post is null: post.likes throws a TypeError, err.kind is undefined
       \/ /\ IsObjectId(r.id) /\ ~Exists(r.id)
          /\ Handled(r, g, Text(500, "Server Error"))
          /\ UNCHANGED posts
       \/ /\ Exists(r.id) /\ AlreadyLiked(posts[r.id].likes, g.user.id)
          /\ Handled(r, g, Msg(400, "Post already liked"))
          /\ UNCHANGED posts
       \/ /\ Exists(r.id) /\ ~AlreadyLiked(posts[r.id].likes, g.user.id)
          /\ LET likes == Unshift(posts[r.id].likes, [user |-> g.user.id])
             IN  /\ posts' = [posts EXCEPT ![r.id].likes = likes]
                 /\ Handled(r, g, Json(200, [type |-> "likes", likes |-> likes]))

LikeReq(tok, id) ==
        LET r == [route |-> "PUT /api/posts/like/:id", token |-> tok, id |-> id]
            g == AuthGate(tok)
        IN  \/ Denied(r, g) /\ UNCHANGED <<posts, nextPost>>
            \/ g.pass /\ LikeHandler(r, g)

Like == \E tok \in Tokens, id \in IdParams : LikeReq(tok, id)

NotLikedMutNever(likes, uid) == FALSE

\* !post.likes.some(like => like.user.toString() === req.user.id)
NotLiked(likes, uid) == ~Liked(likes, uid)

UnlikeHandler(r, g) ==
    /\ UNCHANGED nextPost
    /\ \/ /\ ~IsObjectId(r.id)
          /\ Handled(r, g, Msg(400, "Post not found"))
          /\ UNCHANGED posts
       \/ /\ IsObjectId(r.id) /\ ~Exists(r.id)
          /\ Handled(r, g, Text(500, "Server Error"))
          /\ UNCHANGED posts
       \/ /\ Exists(r.id) /\ NotLiked(posts[r.id].likes, g.user.id)
          /\ Handled(r, g, Msg(400, "Post has not been liked by user"))
          /\ UNCHANGED posts
       \/ /\ Exists(r.id) /\ ~NotLiked(posts[r.id].likes, g.user.id)
          /\ LET removeIndex == IndexOf(MapUser(posts[r.id].likes), g.user.id)
                 likes == Splice1(posts[r.id].likes, removeIndex)
             IN  /\ posts' = [posts EXCEPT ![r.id].likes = likes]
                 /\ Handled(r, g, Json(200, [type |-> "likes", likes |-> likes]))

UnlikeReq(tok, id) ==
        LET r == [route |-> "PUT /api/posts/unlike/:id", token |-> tok, id |-> id]
            g == AuthGate(tok)
        IN  \/ Denied(r, g) /\ UNCHANGED <<posts, nextPost>>
            \/ g.pass /\ UnlikeHandler(r, g)

Unlike == \E tok \in Tokens, id \in IdParams : UnlikeReq(tok, id)

\* A request let through whose handler called res.send / res.json once per
\* element of `outs` (the client receives the first) and, when `esc`, let an
\* exception or a rejected promise escape its try/catch.
Answered(r, g, outs, esc) ==
    /\ g.pass
    /\ req' = r
    /\ res' = IF outs = <<>> THEN NoRes ELSE outs[1]
    /\ reqUser' = g.user
    /\ ran' = TRUE
    /\ sent' = outs
    /\ uncaught' = esc

\* The call of the request in hand that failed (a dropped connection, say):
\* the find (findById / findOne / findOneAndUpdate) or the save.  A call the
\* handler does not reach cannot fail.
NoFault == "none"
Faults == {NoFault, "find", "save"}

CommentTokens == {Absent} \cup {TokenFor(u, jwtSecret, Now) : u \in UserIds}
CommentIdParams == {EntryIdSeq[i] : i \in 1..(MaxEntries + 1)}

\* post.comments.some / indexOf over cmt.id
HasComment(comments, cid) == \E i \in 1..Len(comments) : comments[i].id = cid

\* router.post('/comment/:id'): the catch answers 500 whatever the error is
CommentHandler(r, g) ==
    LET id == EntryIdSeq[nextEntry + 1]
        found == g.user.id \in DOMAIN users /\ Exists(r.id)
    IN  \/ /\ r.text = ""
           /\ r.fault = NoFault
           /\ Answered(r, g, <<Errors(400, <<"Text is required">>)>>, FALSE)
           /\ UNCHANGED <<posts, nextEntry>>
        \* a findById rejects or throws a CastError, user / post is null and
        \* user.name / post.comments throws a TypeError, or the save rejects
        \/ /\ r.text # ""
           /\ \/ r.fault = "find"
              \/ r.fault = NoFault /\ ~found
              \/ r.fault = "save" /\ found
           /\ Answered(r, g, <<Text(500, "Server Error")>>, FALSE)
           /\ UNCHANGED <<posts, nextEntry>>
        \/ /\ r.text # ""
           /\ r.fault = NoFault
           /\ found
           /\ nextEntry < MaxEntries
           /\ LET newComment == [id |-> id, text |-> r.text,
                                 name |-> users[g.user.id].name,
                                 avatar |-> users[g.user.id].avatar,
                                 user |-> g.user.id, date |-> now]
                  comments == Unshift(posts[r.id].comments, newComment)
              IN  /\ posts' = [posts EXCEPT ![r.id].comments = comments]
                  /\ Answered(r, g, <<Json(200, [type |-> "comments",
                                                 comments |-> comments])>>, FALSE)
           /\ nextEntry' = nextEntry + 1

CommentReq(tok, id, text, fault) ==
    LET r == [route |-> "POST /api/posts/comment/:id", token |-> tok, id |-> id,
              text |-> text, fault |-> fault]
        g == AuthGate(tok)
    IN  \/ Denied(r, g) /\ fault = NoFault /\ UNCHANGED <<posts, nextEntry>>
        \/ g.pass /\ CommentHandler(r, g)

OwnsCommentMutAnyone(comment, uid) == TRUE

\* comment.user.toString() === req.user.id
OwnsComment(comment, uid) == comment.user = uid

\* router.delete('/:id/comment/:comment_id').  post.save() is not awaited: the
\* response is sent once the save is issued, and a save that rejects has no
\* handler.  A save that succeeds lands before the next request is handled.
DeleteCommentHandler(r, g) ==
    \* findById rejects with a CastError: the catch sends 400 and, not
    \* returning, sends 500 as well, which throws inside the catch
    \/ /\ r.fault = NoFault
       /\ ~IsObjectId(r.id)
       /\ Answered(r, g, <<Msg(400, "Post or comment not found"),
                           Text(500, "Server Error")>>, TRUE)
       /\ UNCHANGED posts
    \/ /\ r.fault = "find"
       /\ IsObjectId(r.id)
       /\ Answered(r, g, <<Text(500, "Server Error")>>, FALSE)
       /\ UNCHANGED posts
    \/ /\ r.fault = NoFault
       /\ IsObjectId(r.id) /\ ~Exists(r.id)
       /\ Answered(r, g, <<Msg(404, "Post not found")>>, FALSE)
       /\ UNCHANGED posts
    \/ /\ r.fault = NoFault
       /\ Exists(r.id) /\ ~HasComment(posts[r.id].comments, r.comment_id)
       /\ Answered(r, g, <<Msg(404, "Comment not found")>>, FALSE)
       /\ UNCHANGED posts
    \/ /\ r.fault # "find"
       /\ Exists(r.id) /\ HasComment(posts[r.id].comments, r.comment_id)
       /\ LET commentIndex == IndexOf(MapId(posts[r.id].comments), r.comment_id)
              comment == posts[r.id].comments[commentIndex + 1]
              comments == Splice1(posts[r.id].comments, commentIndex)
          IN  \/ /\ r.fault = NoFault
                 /\ ~OwnsComment(comment, g.user.id)
                 /\ Answered(r, g, <<Msg(401, "User not authorized")>>, FALSE)
                 /\ UNCHANGED posts
              \/ /\ OwnsComment(comment, g.user.id)
                 /\ posts' = IF r.fault = "save" THEN posts
                             ELSE [posts EXCEPT ![r.id].comments = comments]
                 /\ Answered(r, g, <<Json(200, [type |-> "comments",
                                                comments |-> comments])>>,
                             r.fault = "save")

DeleteCommentReq(tok, id, comment_id, fault) ==
    LET r == [route |-> "DELETE /api/posts/:id/comment/:comment_id", token |-> tok,
              id |-> id, comment_id |-> comment_id, fault |-> fault]
        g == AuthGate(tok)
    IN  \/ Denied(r, g) /\ fault = NoFault /\ UNCHANGED posts
        \/ g.pass /\ DeleteCommentHandler(r, g)

InitCommon ==
    /\ now = Now
    /\ users = SeedUsers
    /\ nextUser = 0
    /\ posts = <<>>
    /\ nextPost = 0
    /\ profiles = <<>>
    /\ nextEntry = 0
    /\ req = NoReq
    /\ res = NoRes
    /\ reqUser = Undefined
    /\ ran = FALSE
    /\ sent = <<>>
    /\ uncaught = FALSE
    /\ lastAdd = NoAdd
    /\ proc = <<>>

PostsFrame == UNCHANGED <<now, users, nextUser, profiles, nextEntry, lastAdd, proc>>

PostsNext ==
    \/ CreatePost /\ PostsFrame
    \/ GetPost /\ PostsFrame
    \/ DeletePost /\ PostsFrame
    \/ Like /\ PostsFrame
    \/ Unlike /\ PostsFrame

SpecPosts == InitCommon /\ [][PostsNext]_vars

\* Likes on two stored posts, one request at a time
CreatedPost(id, uid) ==
    [id |-> id, user |-> uid, text |-> "hi", name |-> SeedUsers[uid].name,
     avatar |-> SeedUsers[uid].avatar, likes |-> <<>>, comments |-> <<>>, date |-> Now]

\* u1 and u2 have created a post each
InitLikes ==
    /\ now = Now
    /\ users = SeedUsers
    /\ nextUser = 0
    /\ posts = [id \in {PostIdSeq[1], PostIdSeq[2]} |->
                    CreatedPost(id, IF id = PostIdSeq[1] THEN "u1" ELSE "u2")]
    /\ nextPost = 2
    /\ profiles = <<>>
    /\ nextEntry = 0
    /\ req = NoReq
    /\ res = NoRes
    /\ reqUser = Undefined
    /\ ran = FALSE
    /\ sent = <<>>
    /\ uncaught = FALSE
    /\ lastAdd = NoAdd
    /\ proc = <<>>

LikesNext ==
    \/ (\E tok \in CommentTokens, id \in IdParams : LikeReq(tok, id)) /\ PostsFrame
    \/ (\E tok \in CommentTokens, id \in IdParams : UnlikeReq(tok, id)) /\ PostsFrame

SpecLikes == InitLikes /\ [][LikesNext]_vars

\* Posts with comments, one request at a time, no store failure
CommentsFrame == UNCHANGED <<now, users, nextUser, profiles, lastAdd, proc>>

CommentsNext ==
    \/ CreatePostReq(TokenFor("u1", jwtSecret, Now), "hi")
       /\ CommentsFrame /\ UNCHANGED nextEntry
    \/ (\E tok \in CommentTokens, id \in IdParams : CommentReq(tok, id, "hi", NoFault))
       /\ CommentsFrame /\ UNCHANGED nextPost
    \/ (\E tok \in CommentTokens, id \in IdParams, cid \in CommentIdParams :
            DeleteCommentReq(tok, id, cid, NoFault))
       /\ CommentsFrame /\ UNCHANGED <<nextPost, nextEntry>>
    \/ (\E tok \in CommentTokens, id \in IdParams : DeletePostReq(tok, id))
       /\ CommentsFrame /\ UNCHANGED nextEntry

SpecComments == InitCommon /\ [][CommentsNext]_vars

----------------------------------------------------------------------------
(* routes/api/profile *)


RECURSIVE TrimLeft(_)
TrimLeft(cs) == IF cs # <<>> /\ Head(cs) = " " THEN TrimLeft(Tail(cs)) ELSE cs
RECURSIVE TrimRight(_)
TrimRight(cs) ==
    IF cs # <<>> /\ cs[Len(cs)] = " "
    THEN TrimRight(SubSeq(cs, 1, Len(cs) - 1))
    ELSE cs
\* String.prototype.trim
Trim(cs) == TrimRight(TrimLeft(cs))
\* req.body[key]?.trim()
OptTrim(v) == IF v = Undefined THEN Undefined ELSE Str(Trim(v.val))
\* String.prototype.split(sep)
RECURSIVE Split(_, _)
Split(cs, sep) ==
    IF \E i \in 1..Len(cs) : cs[i] = sep
    THEN LET i == CHOOSE k \in 1..Len(cs) :
                    cs[k] = sep /\ \A j \in 1..(k - 1) : cs[j] # sep
         IN  <<SubSeq(cs, 1, i - 1)>> \o Split(SubSeq(cs, i + 1, Len(cs)), sep)
    ELSE <<cs>>
\* req.body.skills.split(',').map(skill => skill.trim())
SkillsOf(v) == LET parts == Split(v.val, ",")
               IN  [i \in 1..Len(parts) |-> Str(Trim(parts[i]))]
\* express-validator isEmpty(): an absent value is validated as ''
IsEmpty(v) == v = Undefined \/ v.val = <<>>

\* Inputs of the profile routes
ProfileTokens == {Absent} \cup {TokenFor(u, jwtSecret, Now) : u \in UserIds}
ProfileBodies ==
    { [status |-> Undefined, skills |-> Str(<<>>), company |-> Undefined],
      [status |-> Str(<<"d", "e", "v", " ">>), skills |-> Str(<<"j", "s", ",", " ", "t", "s">>),
       company |-> Str(<<" ", "c", "o">>)] }

EntryIdParams == {EntryIdSeq[i] : i \in 1..(MaxEntries + 1)}

ExperienceBodies ==
    { [title |-> Str(<<"d", "e", "v">>), company |-> Str(<<"c", "o">>), from |-> Str(<<"1">>)],
      [title |-> Undefined, company |-> Str(<<"c", "o">>), from |-> Str(<<"1">>)] }
EducationBodies ==
    { [school |-> Str(<<"m", "i", "t">>), degree |-> Str(<<"b", "s">>),
       fieldofstudy |-> Str(<<"c", "s">>), from |-> Str(<<"1">>)] }

\* Profile.findOne({user: uid}): the position of the first match, 0 for null
FindIn(coll, uid) ==
    IF \E i \in 1..Len(coll) : coll[i].user = uid
    THEN CHOOSE i \in 1..Len(coll) :
            coll[i].user = uid /\ \A j \in 1..(i - 1) : coll[j].user # uid
    ELSE 0
FindProfile(uid) == FindIn(profiles, uid)

\* $set: a key whose value is undefined is left as it was
SetField(old, new) == IF new = Undefined THEN old ELSE new

\* create when there is no match, ignoring the filter otherwise too
UpsertMutInsert(fields) ==
    Append(profiles, [user |-> fields.user, status |-> fields.status,
                      skills |-> fields.skills, company |-> fields.company,
                      experience |-> <<>>, education |-> <<>>])

\* Profile.findOneAndUpdate({user}, {$set: fields}, {new: true, upsert: true})
Upsert(fields) ==
    LET i == FindProfile(fields.user)
    IN  IF i = 0
        THEN Append(profiles, [user |-> fields.user, status |-> fields.status,
                               skills |-> fields.skills, company |-> fields.company,
                               experience |-> <<>>, education |-> <<>>])
        ELSE [profiles EXCEPT ![i] =
                [@ EXCEPT !.status = SetField(@, fields.status),
                          !.skills = fields.skills,
                          !.company = SetField(@, fields.company)]]

UpsertProfileHandler(r, g) ==
    LET errors == (IF IsEmpty(r.body.status) THEN <<"Status is required">> ELSE <<>>)
                  \o (IF IsEmpty(r.body.skills) THEN <<"Skills is required">> ELSE <<>>)
    IN  /\ UNCHANGED nextEntry
        /\ lastAdd' = NoAdd
        /\ \/ /\ errors # <<>>
              /\ Handled(r, g, Errors(400, errors))
              /\ UNCHANGED profiles
           \/ /\ errors = <<>>
              /\ LET fields == [user |-> g.user.id,
                                company |-> OptTrim(r.body.company),
                                status |-> OptTrim(r.body.status),
                                skills |-> SkillsOf(r.body.skills)]
                     saved == Upsert(fields)
                 IN  /\ profiles' = saved
                     /\ Handled(r, g, Json(200, [type |-> "profile",
                             profile |-> saved[FindIn(saved, g.user.id)]]))

DeniedProfile(r, g) ==
    /\ Denied(r, g)
    /\ lastAdd' = NoAdd
    /\ UNCHANGED <<profiles, nextEntry>>

UpsertProfileReq(tok, body) ==
    LET r == [route |-> "POST /api/profile", token |-> tok, body |-> body]
        g == AuthGate(tok)
    IN  \/ DeniedProfile(r, g)
        \/ g.pass /\ UpsertProfileHandler(r, g)

\* profile.<list>.unshift(newExp); await profile.save(); res.json(profile)
\* (validationResult is empty: the body(...) chains carry no validator)
AddEntryHandler(r, g, list, entry) ==
    LET i == FindProfile(g.user.id)
        id == EntryIdSeq[nextEntry + 1]
    IN  \* profile is null: profile.experience throws a TypeError
        \/ /\ i = 0
           /\ Handled(r, g, Text(500, "Server Error"))
           /\ lastAdd' = NoAdd
           /\ UNCHANGED <<profiles, nextEntry>>
        \/ /\ i # 0
           /\ nextEntry < MaxEntries
           /\ LET saved == [profiles EXCEPT ![i][list] =
                                Unshift(@, [id |-> id, fields |-> entry])]
              IN  /\ profiles' = saved
                  /\ Handled(r, g, Json(200, [type |-> "profile", profile |-> saved[i]]))
           /\ nextEntry' = nextEntry + 1
           /\ lastAdd' = IF list = "experience"
                         THEN [kind |-> "added", user |-> g.user.id, id |-> id,
                               before |-> profiles[i].experience]
                         ELSE NoAdd

AddExperienceReq(tok, body) ==
    LET r == [route |-> "PUT /api/profile/experience", token |-> tok, body |-> body]
        g == AuthGate(tok)
    IN  \/ DeniedProfile(r, g)
        \/ g.pass /\ AddEntryHandler(r, g, "experience", body)

AddEducationReq(tok, body) ==
    LET r == [route |-> "PUT /api/profile/education", token |-> tok, body |-> body]
        g == AuthGate(tok)
    IN  \/ DeniedProfile(r, g)
        \/ g.pass /\ AddEntryHandler(r, g, "education", body)

\* itm._id (an ObjectId) compared with the string parameter: never found
RemoveEntryMutNoMatch(entries, exp_id) == Splice1(entries, -1)

\* const removeIndex = list.map(itm => itm.id).indexOf(req.params.exp_id);
\* list.splice(removeIndex, 1)
RemoveEntry(entries, exp_id) == Splice1(entries, IndexOf(MapId(entries), exp_id))

DeleteEntryHandler(r, g, list) ==
    LET i == FindProfile(g.user.id)
    IN  /\ UNCHANGED nextEntry
        /\ \/ /\ i = 0
              /\ Handled(r, g, Text(500, "Server Error"))
              /\ lastAdd' = NoAdd
              /\ UNCHANGED profiles
           \/ /\ i # 0
              /\ LET saved == [profiles EXCEPT ![i][list] = RemoveEntry(@, r.exp_id)]
                 IN  /\ profiles' = saved
                     /\ Handled(r, g, Json(200, [type |-> "profile", profile |-> saved[i]]))
              /\ lastAdd' = IF /\ list = "experience"
                               /\ lastAdd.kind = "added"
                               /\ lastAdd.user = g.user.id
                               /\ lastAdd.id = r.exp_id
                            THEN [lastAdd EXCEPT !.kind = "deleted"]
                            ELSE NoAdd

DeleteExperienceReq(tok, exp_id) ==
    LET r == [route |-> "DELETE /api/profile/experience/:exp_id", token |-> tok,
              exp_id |-> exp_id]
        g == AuthGate(tok)
    IN  \/ DeniedProfile(r, g)
        \/ g.pass /\ DeleteEntryHandler(r, g, "experience")

DeleteEducationReq(tok, exp_id) ==
    LET r == [route |-> "DELETE /api/profile/education/:exp_id", token |-> tok,
              exp_id |-> exp_id]
        g == AuthGate(tok)
    IN  \/ DeniedProfile(r, g)
        \/ g.pass /\ DeleteEntryHandler(r, g, "education")

UpsertProfile == \E tok \in ProfileTokens, body \in ProfileBodies : UpsertProfileReq(tok, body)
AddExperience == \E tok \in ProfileTokens, body \in ExperienceBodies : AddExperienceReq(tok, body)
DeleteExperience == \E tok \in ProfileTokens, id \in EntryIdParams : DeleteExperienceReq(tok, id)
AddEducation == \E tok \in ProfileTokens, body \in EducationBodies : AddEducationReq(tok, body)
DeleteEducation == \E tok \in ProfileTokens, id \in EntryIdParams : DeleteEducationReq(tok, id)

ProfileFrame == UNCHANGED <<now, users, nextUser, posts, nextPost, proc>>

ProfileNext ==
    \/ UpsertProfile /\ ProfileFrame
    \/ AddExperience /\ ProfileFrame
    \/ DeleteExperience /\ ProfileFrame
    \/ AddEducation /\ ProfileFrame
    \/ DeleteEducation /\ ProfileFrame

SpecProfile == InitCommon /\ [][ProfileNext]_vars

RemoveProfileMutKeep(coll, uid) == coll

\* Profile.findOneAndDelete({user: uid}): removes the first match, if any
RemoveProfile(coll, uid) ==
    IF FindIn(coll, uid) = 0 THEN coll ELSE Splice1(coll, FindIn(coll, uid) - 1)

\* User.findOneAndDelete({_id: uid})
RemoveUser(us, uid) == IF uid \in DOMAIN us THEN Without(us, uid) ELSE us

\* router.delete('/'): the posts collection is not touched
DeleteProfileHandler(r, g) ==
    /\ profiles' = RemoveProfile(profiles, g.user.id)
    /\ users' = RemoveUser(users, g.user.id)
    /\ Handled(r, g, Msg(200, "User deleted"))

DeleteProfileReq(tok) ==
    LET r == [route |-> "DELETE /api/profile", token |-> tok]
        g == AuthGate(tok)
    IN  \/ Denied(r, g) /\ UNCHANGED <<profiles, users>>
        \/ g.pass /\ DeleteProfileHandler(r, g)

DeleteProfile == \E tok \in ProfileTokens : DeleteProfileReq(tok)

\* Accounts: profiles and identities come and go, posts are written
AccountFrame == UNCHANGED <<now, nextUser, proc>>

AccountNext ==
    \/ UpsertProfile /\ AccountFrame /\ UNCHANGED <<users, posts, nextPost>>
    \/ DeleteProfile /\ AccountFrame /\ UNCHANGED <<posts, nextPost, nextEntry, lastAdd>>
    \/ (\E tok \in ProfileTokens : CreatePostReq(tok, "hi"))
       /\ AccountFrame /\ UNCHANGED <<users, profiles, nextEntry, lastAdd>>

SpecAccount == InitCommon /\ [][AccountNext]_vars

----------------------------------------------------------------------------
(* routes/api/users (register) and routes/api/auth (login) *)

UserIdSeq == <<"u1", "u2", "u3", "u4">>
Procs == {"r1", "r2"}
Salts == {1, 2}

WellFormedEmails == {"a@x.com", "b@x.com"}
\* isEmail()
IsEmail(email) == email \in WellFormedEmails
\* isLength({min: 6}), on the value as a string
IsLengthMin6(v) == v # Undefined /\ Len(v.val) >= 6
\* exists()
IsDefined(v) == v # Undefined
IsString(v) == v.type = "string"

RegisterBodies ==
    { [name |-> Str(<<"A">>), email |-> "a@x.com", password |-> Secret],
      [name |-> Str(<<"B">>), email |-> "b@x.com", password |-> Secret],
      [name |-> Str(<<>>), email |-> "a@x.com", password |-> Str(<<"a", "b", "c">>)],
      [name |-> Str(<<"B">>), email |-> "b@x.com",
       password |-> Num(<<"1", "2", "3", "4", "5", "6", "7">>)] }

LoginBodies ==
    { [email |-> e, password |-> pw] :
          e \in WellFormedEmails,
          pw \in {Secret, Str(<<"w", "r", "o", "n", "g", "!">>), Num(<<"1", "2", "3">>)} }
    \cup { [email |-> "a.x.com", password |-> Undefined] }

\* validationResult(req).array() of the register route
RegisterErrors(body) ==
    (IF IsEmpty(body.name) THEN <<"Name is required">> ELSE <<>>)
    \o (IF ~IsEmail(body.email) THEN <<"Please include a valid email">> ELSE <<>>)
    \o (IF ~IsLengthMin6(body.password)
        THEN <<"Please enter a password with 6 or more characters">> ELSE <<>>)

\* validationResult(req).array() of the login route
LoginErrors(body) ==
    (IF ~IsEmail(body.email) THEN <<"Please include a valid email">> ELSE <<>>)
    \o (IF ~IsDefined(body.password) THEN <<"Password is required">> ELSE <<>>)

\* User.findOne({email}): the ids of the matching documents
FindByEmail(email) == {u \in DOMAIN users : users[u].email = email}

EmailTakenMutNever(email) == FALSE

\* let user = await User.findOne({email}); if (user) ...
EmailTaken(email) == FindByEmail(email) # {}

UniqueViolationMutNoIndex(doc) == FALSE

\* The unique indexes of UserSchema (email, password): the insert is refused
\* with a duplicate-key error when either value is already stored
UniqueViolation(doc) ==
    \E u \in DOMAIN users :
        users[u].email = doc.email \/ users[u].password = doc.password

\* bcrypt.compare(password, hash)
bcryptCompare(password, hash) == hash.of = password

TokenRes(id, email) ==
    Json(200, [type |-> "token",
               token |-> JwtSign([user |-> [id |-> id]], jwtSecret,
                                 [expiresIn |-> expiresIn, audience |-> email], now)])

Idle == [pc |-> "idle"]

\* the request arrives: validators, then the handler up to `await User.findOne`
RegStart(p, body) ==
    /\ proc[p].pc \in {"idle", "done"}
    /\ proc' = [proc EXCEPT ![p] =
                  IF RegisterErrors(body) # <<>>
                  THEN [pc |-> "done", body |-> body,
                        res |-> Errors(400, RegisterErrors(body))]
                  ELSE [pc |-> "findOne", body |-> body]]
    /\ UNCHANGED <<users, nextUser>>

\* findOne resolves: 400 if the email is taken, else `new User({...})` (which
\* assigns the _id) up to `await user.save()`
RegFindOne(p) ==
    /\ proc[p].pc = "findOne"
    /\ \/ /\ EmailTaken(proc[p].body.email)
          /\ proc' = [proc EXCEPT ![p] =
                        [pc |-> "done", body |-> @.body,
                         res |-> Errors(400, <<"User already exists">>)]]
          /\ UNCHANGED nextUser
       \/ /\ ~EmailTaken(proc[p].body.email)
          /\ nextUser < MaxUsers
          /\ proc' = [proc EXCEPT ![p] =
                        [pc |-> "save", body |-> @.body,
                         user |-> [id |-> UserIdSeq[nextUser + 1],
                                   name |-> @.body.name.val,
                                   email |-> @.body.email,
                                   avatar |-> gravatarUrl(@.body.email)]]]
          /\ nextUser' = nextUser + 1
    /\ UNCHANGED users

\* genSalt, hash, save, jwt.sign: any throw is answered 500 'Server error'
RegSave(p, salt) ==
    /\ proc[p].pc = "save"
    /\ LET body == proc[p].body
           user == proc[p].user
           doc == [name |-> user.name, email |-> user.email, avatar |-> user.avatar,
                   password |-> bcryptHash(body.password, salt), date |-> now]
       IN  \* bcrypt.hash rejects a password that is not a string
           \/ /\ ~IsString(body.password)
              /\ proc' = [proc EXCEPT ![p] =
                            [pc |-> "done", body |-> body, res |-> Text(500, "Server error")]]
              /\ UNCHANGED users
           \/ /\ IsString(body.password)
              /\ UniqueViolation(doc)
              /\ proc' = [proc EXCEPT ![p] =
                            [pc |-> "done", body |-> body, res |-> Text(500, "Server error")]]
              /\ UNCHANGED users
           \/ /\ IsString(body.password)
              /\ ~UniqueViolation(doc)
              /\ users' = With(users, user.id, doc)
              /\ proc' = [proc EXCEPT ![p] =
                            [pc |-> "done", body |-> body,
                             res |-> TokenRes(user.id, body.email)]]
    /\ UNCHANGED nextUser

NoSuchUserMutNotFound == Errors(404, <<"User not found">>)

\* if (!user) return res.status(400).json({errors: [{msg: 'Invalid Credential'}]})
NoSuchUser == Errors(400, <<"Invalid Credential">>)

\* if (!isMatch) return res.status(400).json({errors: [{msg: 'Invalid Credential'}]})
NoMatch == Errors(400, <<"Invalid Credential">>)

\* router.post('/') of routes/api/auth: the response to a login request
LoginResponse(body) ==
    IF LoginErrors(body) # <<>> THEN Errors(400, LoginErrors(body))
    ELSE IF ~EmailTaken(body.email) THEN NoSuchUser
    ELSE LET id == CHOOSE u \in FindByEmail(body.email) : TRUE
         IN  \* bcrypt.compare rejects a password that is not a string
             IF ~IsString(body.password) THEN Text(500, "Server error")
             ELSE IF ~bcryptCompare(body.password, users[id].password) THEN NoMatch
             ELSE TokenRes(id, body.email)

Login ==
    \E body \in LoginBodies :
        /\ req' = [route |-> "POST /api/auth", token |-> Undefined, body |-> body]
        /\ res' = LoginResponse(body)
        /\ reqUser' = Undefined
        /\ ran' = TRUE
        /\ sent' = <<LoginResponse(body)>>
        /\ uncaught' = FALSE
        /\ UNCHANGED <<users, nextUser, proc>>

RegFrame == UNCHANGED <<now, posts, nextPost, profiles, nextEntry, lastAdd>>
RegReqFrame == UNCHANGED <<req, res, reqUser, ran, sent, uncaught>>

InitReg ==
    /\ now = Now
    /\ users = <<>>
    /\ nextUser = 0
    /\ posts = <<>>
    /\ nextPost = 0
    /\ profiles = <<>>
    /\ nextEntry = 0
    /\ req = NoReq
    /\ res = NoRes
    /\ reqUser = Undefined
    /\ ran = FALSE
    /\ sent = <<>>
    /\ uncaught = FALSE
    /\ lastAdd = NoAdd
    /\ proc = [p \in Procs |-> Idle]

RegNext ==
    \/ \E p \in Procs, body \in RegisterBodies : RegStart(p, body) /\ RegFrame /\ RegReqFrame
    \/ \E p \in Procs : RegFindOne(p) /\ RegFrame /\ RegReqFrame
    \/ \E p \in Procs, salt \in Salts : RegSave(p, salt) /\ RegFrame /\ RegReqFrame
    \/ Login /\ RegFrame

SpecReg == InitReg /\ [][RegNext]_vars

----------------------------------------------------------------------------
(* Handlers whose store, signing or outbound call fails *)

\* A public route: no middleware in front of the handler
Public == [pass |-> TRUE, user |-> Undefined, res |-> NoRes]

\* Failures of the register route: User.findOne or user.save rejects, or
\* jwt.sign hands an error to its callback, either synchronously (from inside
\* the call, so inside the handler's try) or later (from the signer's 'error'
\* event, after the handler has returned)
RegisterFaults == {NoFault, "find", "save", "sign", "signLater"}

\* router.post('/') of routes/api/users, from arrival to the last callback
RegisterHandler(r) ==
    LET body == r.body
        id == UserIdSeq[nextUser + 1]
        doc == [name |-> body.name.val, email |-> body.email,
                avatar |-> gravatarUrl(body.email),
                password |-> bcryptHash(body.password, 1), date |-> now]
        \* the handler gets as far as user.save()
        hashed == /\ RegisterErrors(body) = <<>>
                  /\ ~EmailTaken(body.email)
                  /\ IsString(body.password)
    IN  \/ /\ RegisterErrors(body) # <<>>
           /\ r.fault = NoFault
           /\ Answered(r, Public, <<Errors(400, RegisterErrors(body))>>, FALSE)
           /\ UNCHANGED <<users, nextUser>>
        \/ /\ RegisterErrors(body) = <<>>
           /\ r.fault = NoFault
           /\ EmailTaken(body.email)
           /\ Answered(r, Public, <<Errors(400, <<"User already exists">>)>>, FALSE)
           /\ UNCHANGED <<users, nextUser>>
        \* findOne rejects, bcrypt.hash throws, or save rejects (a failure of
        \* the store or a duplicate key): all inside the try
        \/ /\ RegisterErrors(body) = <<>>
           /\ \/ r.fault = "find"
              \/ r.fault = NoFault /\ ~EmailTaken(body.email) /\ ~IsString(body.password)
              \/ r.fault = "save" /\ hashed
              \/ r.fault = NoFault /\ hashed /\ UniqueViolation(doc)
           /\ Answered(r, Public, <<Text(500, "Server error")>>, FALSE)
           /\ UNCHANGED <<users, nextUser>>
        \/ /\ hashed
           /\ r.fault \notin {"find", "save"}
           /\ ~UniqueViolation(doc)
           /\ nextUser < MaxUsers
           /\ users' = With(users, id, doc)
           /\ nextUser' = nextUser + 1
           /\ \/ /\ r.fault = NoFault
                 /\ Answered(r, Public, <<TokenRes(id, body.email)>>, FALSE)
              \* `throw err` in the callback, called from within jwt.sign:
              \* it unwinds into the handler's catch
              \/ /\ r.fault = "sign"
                 /\ Answered(r, Public, <<Text(500, "Server error")>>, FALSE)
              \* `throw err` in the callback, called from the event loop: no
              \* try/catch is on the stack and no response is sent
              \/ /\ r.fault = "signLater"
                 /\ Answered(r, Public, <<>>, TRUE)

RegisterReq(body, fault) ==
    RegisterHandler([route |-> "POST /api/users", token |-> Undefined, body |-> body,
                     fault |-> fault])

\* What the outbound request to api.github.com comes back with
GithubOutcomes == {"repos", "not200", "error"}

\* router.get('/github/:username'): the callback of request() runs after the
\* handler has returned, so its `throw err` is outside the try/catch
GithubHandler(r) ==
    \/ /\ r.outcome = "repos"
       /\ Answered(r, Public, <<Json(200, [type |-> "repos"])>>, FALSE)
    \/ /\ r.outcome = "not200"
       /\ Answered(r, Public, <<Msg(404, "No Github profile found")>>, FALSE)
    \/ /\ r.outcome = "error"
       /\ Answered(r, Public, <<>>, TRUE)

GithubReq(outcome) ==
    GithubHandler([route |-> "GET /api/profile/github/:username", token |-> Undefined,
                   outcome |-> outcome,
                   fault |-> IF outcome = "error" THEN "request" ELSE NoFault])

\* router.post('/') of routes/api/profile when findOneAndUpdate rejects: the
\* catch sends 500 and does not return, so res.send(profile) follows and
\* throws (the headers are sent) out of the handler
UpsertProfileFailure(r, g) ==
    LET errors == (IF IsEmpty(r.body.status) THEN <<"Status is required">> ELSE <<>>)
                  \o (IF IsEmpty(r.body.skills) THEN <<"Skills is required">> ELSE <<>>)
    IN  /\ UNCHANGED <<profiles, nextEntry>>
        /\ lastAdd' = NoAdd
        /\ errors = <<>>
        /\ Answered(r, g, <<Text(500, "Server Error"), Json(200, Undefined)>>, TRUE)

UpsertProfileFaultReq(tok, body, fault) ==
    LET r == [route |-> "POST /api/profile", token |-> tok, body |-> body,
              fault |-> fault]
        g == AuthGate(tok)
    IN  \/ DeniedProfile(r, g) /\ fault = NoFault
        \/ g.pass /\ fault = NoFault /\ UpsertProfileHandler(r, g)
        \/ g.pass /\ fault # NoFault /\ UpsertProfileFailure(r, g)

FaultTokens == {Absent, TokenFor("u1", jwtSecret, Now)}
FaultRegisterBody == [name |-> Str(<<"B">>), email |-> "b@x.com", password |-> Secret]

\* u1 is registered
InitFaults ==
    /\ now = Now
    /\ users = [u \in {"u1"} |-> SeedUsers[u]]
    /\ nextUser = 1
    /\ posts = <<>>
    /\ nextPost = 0
    /\ profiles = <<>>
    /\ nextEntry = 0
    /\ req = NoReq
    /\ res = NoRes
    /\ reqUser = Undefined
    /\ ran = FALSE
    /\ sent = <<>>
    /\ uncaught = FALSE
    /\ lastAdd = NoAdd
    /\ proc = <<>>

FaultsNext ==
    \/ (\E fault \in RegisterFaults : RegisterReq(FaultRegisterBody, fault))
       /\ UNCHANGED <<now, posts, nextPost, profiles, nextEntry, lastAdd, proc>>
    \/ (\E outcome \in GithubOutcomes : GithubReq(outcome))
       /\ UNCHANGED <<now, users, nextUser, posts, nextPost, profiles, nextEntry,
                      lastAdd, proc>>
    \/ (\E tok \in FaultTokens, body \in ProfileBodies, fault \in {NoFault, "find"} :
            UpsertProfileFaultReq(tok, body, fault))
       /\ UNCHANGED <<now, users, nextUser, posts, nextPost, proc>>
    \/ (\E tok \in FaultTokens : CreatePostReq(tok, "hi"))
       /\ CommentsFrame /\ UNCHANGED nextEntry
    \/ (\E tok \in FaultTokens, id \in IdParams, fault \in Faults :
            CommentReq(tok, id, "hi", fault))
       /\ CommentsFrame /\ UNCHANGED nextPost
    \/ (\E tok \in FaultTokens, id \in IdParams, cid \in CommentIdParams, fault \in Faults :
            DeleteCommentReq(tok, id, cid, fault))
       /\ CommentsFrame /\ UNCHANGED <<nextPost, nextEntry>>

SpecFaults == InitFaults /\ [][FaultsNext]_vars

----------------------------------------------------------------------------
(* routes/api/posts, requests interleaved at their awaits *)

\* Requests on the one stored post: likes by the two identities, comments by u1
RaceTokens == {TokenFor(u, jwtSecret, Now) : u \in UserIds}
RacePost == PostIdSeq[1]
RaceCommenter == TokenFor("u1", jwtSecret, Now)
RaceRequests ==
    {[route |-> rt, token |-> tok, id |-> RacePost] :
        rt \in {"PUT /api/posts/like/:id", "PUT /api/posts/unlike/:id"}, tok \in RaceTokens}
    \cup {[route |-> "POST /api/posts/comment/:id", token |-> RaceCommenter,
           id |-> RacePost, text |-> "hi"]}
    \cup {[route |-> "DELETE /api/posts/:id/comment/:comment_id", token |-> RaceCommenter,
           id |-> RacePost, comment_id |-> EntryIdSeq[i]] : i \in 1..MaxEntries}

\* The path of the document a save of this route writes
FieldOf(route) ==
    IF route \in {"PUT /api/posts/like/:id", "PUT /api/posts/unlike/:id"}
    THEN "likes" ELSE "comments"

\* a versioned save: refused when the array was written since it was read
SaveAcceptedMutVersioned(read, stored) == read = stored

\* Whether the store applies a save computed from `read` when it now holds
\* `stored`: the aggregate is saved as a unit with no optimistic-concurrency
\* token, so always.
SaveAccepted(read, stored) == TRUE

\* The request arrives and runs up to its first await (Post.findById)
Arrive(p, r) ==
    /\ proc[p].pc \in {"idle", "done"}
    /\ LET g == AuthGate(r.token)
       IN  proc' = [proc EXCEPT ![p] =
                IF g.pass THEN [pc |-> "findById", req |-> r, user |-> g.user]
                ELSE [pc |-> "done", req |-> r, res |-> g.res]]
    /\ UNCHANGED <<posts, nextEntry>>

ReplyTo(p, out) == proc' = [proc EXCEPT ![p] = [pc |-> "done", req |-> @.req, res |-> out]]

\* the response of a request whose save went through
SavedResponse(field, doc) ==
    IF field = "likes" THEN Json(200, [type |-> "likes", likes |-> doc])
    ELSE Json(200, [type |-> "comments", comments |-> doc])

\* unshift / splice done on the document in memory and post.save() issued:
\* awaited (pc "save": the response follows it) or not (pc "saving": the
\* response, res, is sent at once)
Modified(p, pc, field, doc) ==
    proc' = [proc EXCEPT ![p] =
                [pc |-> pc, req |-> @.req, user |-> @.user, field |-> field,
                 read |-> posts[@.req.id][field], doc |-> doc,
                 res |-> IF pc = "saving" THEN SavedResponse(field, doc) ELSE NoRes]]

\* findById resolves with the post as stored now; the handler runs on to its
\* response or to post.save().  (Comment also awaits User.findById first; the
\* users collection does not change here.)
FindByIdDone(p) ==
    /\ proc[p].pc = "findById"
    /\ LET r == proc[p].req
           uid == proc[p].user.id
           post == posts[r.id]
       IN  \/ /\ r.route = "PUT /api/posts/like/:id"
              /\ UNCHANGED nextEntry
              /\ IF AlreadyLiked(post.likes, uid)
                 THEN ReplyTo(p, Msg(400, "Post already liked"))
                 ELSE Modified(p, "save", "likes", Unshift(post.likes, [user |-> uid]))
           \/ /\ r.route = "PUT /api/posts/unlike/:id"
              /\ UNCHANGED nextEntry
              /\ IF NotLiked(post.likes, uid)
                 THEN ReplyTo(p, Msg(400, "Post has not been liked by user"))
                 ELSE Modified(p, "save", "likes",
                               Splice1(post.likes, IndexOf(MapUser(post.likes), uid)))
           \/ /\ r.route = "POST /api/posts/comment/:id"
              /\ nextEntry < MaxEntries
              /\ nextEntry' = nextEntry + 1
              /\ Modified(p, "save", "comments",
                    Unshift(post.comments,
                            [id |-> EntryIdSeq[nextEntry + 1], text |-> r.text,
                             name |-> users[uid].name, avatar |-> users[uid].avatar,
                             user |-> uid, date |-> now]))
           \/ /\ r.route = "DELETE /api/posts/:id/comment/:comment_id"
              /\ UNCHANGED nextEntry
              /\ IF ~HasComment(post.comments, r.comment_id)
                 THEN ReplyTo(p, Msg(404, "Comment not found"))
                 ELSE LET commentIndex == IndexOf(MapId(post.comments), r.comment_id)
                      IN  IF ~OwnsComment(post.comments[commentIndex + 1], uid)
                          THEN ReplyTo(p, Msg(401, "User not authorized"))
                          \* post.save() is issued and the response sent at once
                          ELSE Modified(p, "saving", "comments",
                                        Splice1(post.comments, commentIndex))
    /\ UNCHANGED posts

\* the request is over; what it read and answered is kept
Over(p, out) ==
    proc' = [proc EXCEPT ![p] = [pc |-> "done", req |-> @.req, res |-> out,
                                 field |-> @.field, read |-> @.read]]

\* post.save() resolves: the modified array replaces the stored one, or the
\* save rejects (an awaited one is answered 500 by the catch)
SaveDone(p) ==
    /\ proc[p].pc \in {"save", "saving"}
    /\ LET r == proc[p].req
           field == proc[p].field
           doc == proc[p].doc
       IN  IF SaveAccepted(proc[p].read, posts[r.id][field])
           THEN /\ posts' = [posts EXCEPT ![r.id][field] = doc]
                /\ Over(p, SavedResponse(field, doc))
           ELSE /\ UNCHANGED posts
                /\ Over(p, IF proc[p].pc = "save" THEN Text(500, "Server Error")
                           ELSE proc[p].res)
    /\ UNCHANGED nextEntry

\* one post, created by u1, is stored
InitRace ==
    /\ now = Now
    /\ users = SeedUsers
    /\ nextUser = 0
    /\ posts = (RacePost :> [id |-> RacePost, user |-> "u1", text |-> "hi",
                             name |-> SeedUsers["u1"].name,
                             avatar |-> SeedUsers["u1"].avatar,
                             likes |-> <<>>, comments |-> <<>>, date |-> Now])
    /\ nextPost = 1
    /\ profiles = <<>>
    /\ nextEntry = 0
    /\ req = NoReq
    /\ res = NoRes
    /\ reqUser = Undefined
    /\ ran = FALSE
    /\ sent = <<>>
    /\ uncaught = FALSE
    /\ lastAdd = NoAdd
    /\ proc = [p \in Procs |-> Idle]

RaceFrame == UNCHANGED <<now, users, nextUser, nextPost, profiles, lastAdd,
                         req, res, reqUser, ran, sent, uncaught>>

RaceNext ==
    \/ \E p \in Procs, r \in RaceRequests : Arrive(p, r) /\ RaceFrame
    \/ \E p \in Procs : FindByIdDone(p) /\ RaceFrame
    \/ \E p \in Procs : SaveDone(p) /\ RaceFrame

SpecRace == InitRace /\ [][RaceNext]_vars

----------------------------------------------------------------------------
(* Claims about the posts routes and the auth middleware, under SpecPosts *)

LikeRoute == "PUT /api/posts/like/:id"
UnlikeRoute == "PUT /api/posts/unlike/:id"
DeletePostRoute == "DELETE /api/posts/:id"
PrivateRoutes == {"POST /api/posts", "GET /api/posts/:id", DeletePostRoute,
                  LikeRoute, UnlikeRoute}

NoToken(tok) == tok = Absent \/ tok = Empty
\* the token was signed with the server's secret and has not expired
Verifies(tok) == ~NoToken(tok) /\ tok.secret = jwtSecret /\ now < tok.exp
StoreUnchanged == UNCHANGED <<users, nextUser, posts, nextPost, profiles, nextEntry>>

\* C1: after any sequence of Like and Unlike requests, each run to completion,
\* no post's likes list holds two entries for the same identity.
C1_LikesUnique ==
    \A p \in DOMAIN posts :
        \A i, j \in 1..Len(posts[p].likes) :
            i # j => posts[p].likes[i].user # posts[p].likes[j].user

\* a post liked by both identities, one of which was just refused a second like
C1_Witness ==
    /\ req.route = LikeRoute
    /\ res = Msg(400, "Post already liked")
    /\ \E p \in DOMAIN posts : Len(posts[p].likes) = 2

\* C2: a Like by an identity already in the post's likes list is answered
\* 400 'Post already liked' and leaves the stored posts (so the likes list and
\* its length) unchanged.
C2_AlreadyLiked ==
    [][(/\ req'.route = LikeRoute
        /\ Verifies(req'.token)
        /\ Exists(req'.id)
        /\ Liked(posts[req'.id].likes, req'.token.user.id))
       => /\ res' = Msg(400, "Post already liked")
          /\ posts' = posts]_vars

C2_Witness ==
    /\ req.route = LikeRoute
    /\ Verifies(req.token)
    /\ Exists(req.id)
    /\ Liked(posts[req.id].likes, req.token.user.id)
    /\ res.status = 400

\* C3: an Unlike on an existing post by an identity absent from its likes list
\* is answered 400 'Post has not been liked by user' and leaves the stored
\* posts unchanged.
C3_NotLiked ==
    [][(/\ req'.route = UnlikeRoute
        /\ Verifies(req'.token)
        /\ Exists(req'.id)
        /\ ~Liked(posts[req'.id].likes, req'.token.user.id))
       => /\ res' = Msg(400, "Post has not been liked by user")
          /\ posts' = posts]_vars

\* refused on a post that somebody else has liked
C3_Witness ==
    /\ req.route = UnlikeRoute
    /\ Verifies(req.token)
    /\ Exists(req.id)
    /\ ~Liked(posts[req.id].likes, req.token.user.id)
    /\ posts[req.id].likes # <<>>
    /\ res.status = 400

\* C4: a Delete-post by an identity other than the post's owner is answered
\* 401 'User not authorized to delete post' and the post is still stored; and a
\* post leaves the store only in a Delete-post step requested by its owner.
C4_DeleteByOwnerOnly ==
    [][/\ (/\ req'.route = DeletePostRoute
           /\ Verifies(req'.token)
           /\ Exists(req'.id)
           /\ posts[req'.id].user # req'.token.user.id)
          => /\ res' = Msg(401, "User not authorized to delete post")
             /\ req'.id \in DOMAIN posts'
             /\ posts' = posts
       /\ \A p \in DOMAIN posts :
            p \notin DOMAIN posts'
            => /\ req'.route = DeletePostRoute
               /\ req'.id = p
               /\ Verifies(req'.token)
               /\ req'.token.user.id = posts[p].user]_vars

\* a non-owner was refused and the owner's post is still there
C4_Witness ==
    /\ req.route = DeletePostRoute
    /\ Verifies(req.token)
    /\ Exists(req.id)
    /\ posts[req.id].user # req.token.user.id
    /\ res.status = 401

\* C5: on a private route the handler runs only for a token that verifies, and
\* then req.user is the identity in the token; without a token the answer is
\* 401 'No token, authorization denied', with a token that does not verify it
\* is 401 'Token is not valid', and in both cases the handler is not invoked
\* and the store is unchanged.
C5_AuthGate ==
    /\ [](req.route \in PrivateRoutes
          => /\ NoToken(req.token)
                => res = Msg(401, "No token, authorization denied") /\ ~ran
             /\ ~NoToken(req.token) /\ ~Verifies(req.token)
                => res = Msg(401, "Token is not valid") /\ ~ran
             /\ ran => Verifies(req.token) /\ reqUser = req.token.user)
    /\ [][~ran' => StoreUnchanged]_vars

\* a token that does not verify was refused while there are posts to protect
C5_Witness ==
    /\ req.route = DeletePostRoute
    /\ ~NoToken(req.token) /\ ~Verifies(req.token)
    /\ Exists(req.id)
    /\ posts[req.id].user = req.token.user.id
    /\ res.status = 401

----------------------------------------------------------------------------
(* Claims about the profile routes, under SpecProfile *)

DeleteExperienceRoute == "DELETE /api/profile/experience/:exp_id"
DeleteEducationRoute == "DELETE /api/profile/education/:exp_id"
ListOf(route) == IF route = DeleteExperienceRoute THEN "experience" ELSE "education"

\* the request in hand deletes, from the caller's existing profile, an entry
\* id that its list does not hold
DeletesMissingEntry(r, coll) ==
    /\ r.route \in {DeleteExperienceRoute, DeleteEducationRoute}
    /\ Verifies(r.token)
    /\ FindIn(coll, r.token.user.id) # 0
    /\ LET list == coll[FindIn(coll, r.token.user.id)][ListOf(r.route)]
       IN  \A i \in 1..Len(list) : list[i].id # r.exp_id

\* C6: deleting an experience (education) entry by an id that matches no entry
\* of the caller's profile reports success and leaves the list as it was.
C6_DeleteMissingIsNoOp ==
    [][DeletesMissingEntry(req', profiles)
       => res'.status = 200 /\ profiles' = profiles]_vars

\* C7: adding an experience entry and then deleting it by the id the add
\* returned leaves the caller's experience list as it was before the add.
C7_AddThenDelete ==
    lastAdd.kind = "deleted"
    => /\ res.status = 200
       /\ FindProfile(lastAdd.user) # 0
       /\ profiles[FindProfile(lastAdd.user)].experience = lastAdd.before

\* the add went on top of a list that already held an entry
C7_Witness ==
    /\ lastAdd.kind = "deleted"
    /\ lastAdd.before # <<>>
    /\ req.route = DeleteExperienceRoute
    /\ req.exp_id = lastAdd.id

----------------------------------------------------------------------------
(* Claims about register and login, under SpecReg *)

Conflict == Errors(400, <<"User already exists">>)
\* some persisted identity has this email
Persisted(email) == \E u \in DOMAIN users : users[u].email = email
\* process p takes a step
Steps(p) == proc'[p] # proc[p]
\* process p's request arrives in this step
Arrives(p) == Steps(p) /\ proc[p].pc \in {"idle", "done"}
Replied(p) == proc[p].pc = "done"

\* C8 as stated: a registration request whose email is that of a persisted
\* identity is answered with Conflict (400 'User already exists'), and with
\* nothing else.
C8_Original ==
    [][\A p \in Procs :
          (Arrives(p) /\ Persisted(proc'[p].body.email) /\ Replied(p)')
          => proc'[p].res = Conflict]_vars

\* C8 amended: a registration request that passes validation and whose email
\* is that of a persisted identity is answered 400 'User already exists',
\* with no token, and the users collection is left unchanged.
C8_ConflictOnKnownEmail ==
    [][\A p \in Procs :
          /\ (/\ Arrives(p)
              /\ Persisted(proc'[p].body.email)
              /\ RegisterErrors(proc'[p].body) = <<>>)
             => proc'[p].pc = "findOne" /\ users' = users
          /\ (/\ Steps(p)
              /\ proc[p].pc = "findOne"
              /\ Persisted(proc[p].body.email))
             => /\ Replied(p)'
                /\ proc'[p].res = Conflict
                /\ proc'[p].res.body.type # "token"
                /\ users' = users
                /\ nextUser' = nextUser]_vars

\* a valid request for a taken email was answered with Conflict
C8_Witness ==
    \E p \in Procs :
        /\ Replied(p)
        /\ proc[p].res = Conflict
        /\ RegisterErrors(proc[p].body) = <<>>
        /\ Persisted(proc[p].body.email)

\* C9: in every reachable state, registrations interleaving their findOne and
\* save steps included, no two persisted identities have the same email.
C9_EmailUnique ==
    \A u, v \in DOMAIN users : u # v => users[u].email # users[v].email

\* two requests for one email both passed findOne; one was saved, the other's
\* save was refused
C9_Witness ==
    /\ proc["r1"].pc = "done" /\ proc["r2"].pc = "done"
    /\ proc["r1"].body.email = proc["r2"].body.email
    /\ proc["r1"].res.status = 200
    /\ proc["r2"].res = Text(500, "Server error")
    /\ IsString(proc["r2"].body.password)

\* a login request that passes validation and carries a string password
WellFormedLogin(body) == LoginErrors(body) = <<>> /\ IsString(body.password)
WrongPassword(body) ==
    \A u \in DOMAIN users :
        users[u].email = body.email => users[u].password.of # body.password

----------------------------------------------------------------------------
(* Claims about comments, under SpecComments *)

DeleteCommentRoute == "DELETE /api/posts/:id/comment/:comment_id"
\* the comment of `comments` with id `cid` (there is one)
CommentOf(comments, cid) ==
    comments[CHOOSE i \in 1..Len(comments) : comments[i].id = cid]
CommentIds(comments) == {comments[i].id : i \in 1..Len(comments)}

\* C11: a Delete-comment is answered NotFound when the post id resolves to no
\* post (404 'Post not found'; 400 'Post or comment not found' for a malformed
\* id) or the post has no comment with the given id (404 'Comment not found'),
\* and Forbidden (401 'User not authorized') when the caller does not own the
\* comment; in each case the stored posts are unchanged.  With requests handled
\* one at a time, a comment leaves the comments list of a post that stays only
\* in a Delete-comment step naming it, requested by the comment's owner.
C11_DeleteCommentContract ==
    [][/\ (req'.route = DeleteCommentRoute /\ Verifies(req'.token))
          => /\ ~IsObjectId(req'.id)
                => res' = Msg(400, "Post or comment not found") /\ posts' = posts
             /\ (IsObjectId(req'.id) /\ ~Exists(req'.id))
                => res' = Msg(404, "Post not found") /\ posts' = posts
             /\ (Exists(req'.id) /\ req'.comment_id \notin CommentIds(posts[req'.id].comments))
                => res' = Msg(404, "Comment not found") /\ posts' = posts
             /\ (/\ Exists(req'.id)
                 /\ req'.comment_id \in CommentIds(posts[req'.id].comments)
                 /\ CommentOf(posts[req'.id].comments, req'.comment_id).user
                        # req'.token.user.id)
                => res' = Msg(401, "User not authorized") /\ posts' = posts
       /\ \A p \in DOMAIN posts \cap DOMAIN posts' :
            \A c \in CommentIds(posts[p].comments) \ CommentIds(posts'[p].comments) :
                /\ req'.route = DeleteCommentRoute
                /\ req'.id = p /\ req'.comment_id = c
                /\ Verifies(req'.token)
                /\ req'.token.user.id = CommentOf(posts[p].comments, c).user]_vars

\* a caller who does not own the comment was refused, and the comment is still
\* there, next to one of the caller's own
C11_Witness ==
    /\ req.route = DeleteCommentRoute
    /\ Verifies(req.token)
    /\ Exists(req.id)
    /\ req.comment_id \in CommentIds(posts[req.id].comments)
    /\ CommentOf(posts[req.id].comments, req.comment_id).user # req.token.user.id
    /\ \E i \in 1..Len(posts[req.id].comments) :
            posts[req.id].comments[i].user = req.token.user.id
    /\ res.status = 401

----------------------------------------------------------------------------
(* Claims about accounts, under SpecAccount *)

DeleteProfileRoute == "DELETE /api/profile"
UpsertProfileRoute == "POST /api/profile"
ProfilesOf(coll, uid) == {i \in 1..Len(coll) : coll[i].user = uid}
KeepOthers(coll, uid) == SelectSeq(coll, LAMBDA d : d.user # uid)

C20_ProfileOwnerPersisted ==
    \A i \in 1..Len(profiles) : profiles[i].user \in DOMAIN users

----------------------------------------------------------------------------
(* Claims about create-or-update profile, under SpecProfile *)

ValidProfileBody(body) == ~IsEmpty(body.status) /\ ~IsEmpty(body.skills)

\* C13: no identity ever has two profiles; a valid create-or-update request by
\* u leaves u with exactly one: the first creates it at the end of the
\* collection, a later one sets the submitted fields on that same document
\* (same position, experience and education kept) and touches no other
\* profile; and no profile goes away, so every identity that has submitted one
\* keeps exactly one.
C13_OneProfilePerIdentity ==
    /\ [](\A u \in UserIds : Cardinality(ProfilesOf(profiles, u)) <= 1)
    /\ [][(/\ req'.route = UpsertProfileRoute
           /\ Verifies(req'.token)
           /\ ValidProfileBody(req'.body))
          => LET u == req'.token.user.id
                 i == CHOOSE k \in ProfilesOf(profiles', u) : TRUE
             IN  /\ Cardinality(ProfilesOf(profiles', u)) = 1
                 /\ res' = Json(200, [type |-> "profile", profile |-> profiles'[i]])
                 /\ profiles'[i].status = Str(Trim(req'.body.status.val))
                 /\ ProfilesOf(profiles, u) = {}
                    => /\ profiles' = Append(profiles, profiles'[i])
                       /\ profiles'[i].experience = <<>>
                 /\ ProfilesOf(profiles, u) # {}
                    => /\ Len(profiles') = Len(profiles)
                       /\ ProfilesOf(profiles, u) = {i}
                       /\ \A k \in 1..Len(profiles) : k # i => profiles'[k] = profiles[k]
                       /\ profiles'[i].experience = profiles[i].experience
                       /\ profiles'[i].education = profiles[i].education]_vars
    /\ [][\A u \in UserIds :
            ProfilesOf(profiles, u) # {} => ProfilesOf(profiles', u) # {}]_vars

\* an identity whose profile already held an experience entry submitted again,
\* while the other identity has a profile too
C13_Witness ==
    /\ req.route = UpsertProfileRoute
    /\ Verifies(req.token)
    /\ ValidProfileBody(req.body)
    /\ Len(profiles) = 2
    /\ \E i \in ProfilesOf(profiles, req.token.user.id) : profiles[i].experience # <<>>

----------------------------------------------------------------------------
(* Claims about interleaved requests on one post, under SpecRace *)

CommentRoute == "POST /api/posts/comment/:id"
\* process p's save resolves in this step
Saves(p) == proc[p].pc \in {"save", "saving"} /\ proc'[p].pc = "done"
\* q's request wrote `field` of the post from the same list p read, got a
\* success response, and what q wrote is what the store holds
WroteFromSameRead(q, p) ==
    /\ proc[q].pc = "done"
    /\ proc[q].res.status = 200
    /\ proc[q].req.id = proc[p].req.id
    /\ FieldOf(proc[q].req.route) = proc[p].field
    /\ proc[q].read = proc[p].read
    /\ posts[proc[q].req.id][proc[p].field] # proc[p].read
    /\ proc[q].res.body[proc[p].field] = posts[proc[q].req.id][proc[p].field]
\* `list` is `read` with the change of request r alone
ChangeOnly(r, read, list) ==
    LET uid == r.token.user.id
    IN  IF r.route = LikeRoute THEN list = <<[user |-> uid]>> \o read
        ELSE IF r.route = UnlikeRoute THEN list = SelectSeq(read, LAMBDA l : l.user # uid)
        ELSE IF r.route = CommentRoute
             THEN list # <<>> /\ Tail(list) = read /\ list[1].user = uid
        ELSE list = SelectSeq(read, LAMBDA c : c.id # r.comment_id)

\* C14: when a Like / Unlike (Comment / Delete-comment) request saves after
\* another request on the same post has written the list from the same read
\* and been answered with success, the save goes through and is answered with
\* success too, and the stored list becomes the list it read with its own
\* change only: the other request's change is lost.
C14_LostUpdate ==
    [][\A p, q \in Procs :
          (p # q /\ Saves(p) /\ WroteFromSameRead(q, p))
          => LET id == proc[p].req.id
                 field == proc[p].field
             IN  /\ proc'[p].res.status = 200
                 /\ proc'[p].res.body[field] = posts'[id][field]
                 /\ ChangeOnly(proc[p].req, proc[p].read, posts'[id][field])
                 /\ posts'[id][field] # posts[id][field]
                    \/ proc[q].res.body[field] = proc'[p].res.body[field]]_vars

\* two Likes by different identities read the empty list, both are answered
\* 200, and one like is stored
C14_Witness ==
    /\ \A p \in Procs :
          /\ proc[p].pc = "done"
          /\ proc[p].req.route = LikeRoute
          /\ proc[p].res.status = 200
          /\ proc[p].read = <<>>
    /\ proc["r1"].req.token # proc["r2"].req.token
    /\ Len(posts[RacePost].likes) = 1

\* C15: in every reachable state, Like and Unlike requests interleaving their
\* findById and save steps included, no identity has two entries in a post's
\* likes list.
C15_LikesUniqueInterleaved ==
    \A id \in DOMAIN posts : \A u \in UserIds :
        Cardinality({i \in 1..Len(posts[id].likes) : posts[id].likes[i].user = u}) <= 1

\* two Likes by the same identity both passed the already-liked check on the
\* same list and both saved; the identity has one entry
C15_Witness ==
    /\ \A p \in Procs :
          /\ proc[p].pc = "done"
          /\ proc[p].req.route = LikeRoute
          /\ proc[p].res.status = 200
          /\ proc[p].read = proc["r1"].read
    /\ proc["r1"].req.token = proc["r2"].req.token
    /\ Liked(posts[RacePost].likes, proc["r1"].req.token.user.id)

----------------------------------------------------------------------------
(* Claims about likes on several posts, under SpecLikes *)

NotBy(likes, uid) == SelectSeq(likes, LAMBDA l : l.user # uid)

\* C18: a Like or Unlike answered with success by identity u on a post changes
\* only that post's likes list and only u's entry in it: Like puts one entry
\* of u in front of the list as it was, Unlike removes u's entry, the entries
\* of the other identities keep their order, and every other post and every
\* other field of the post stay as they were.
C18_LikeFrame ==
    [][(req'.route \in {LikeRoute, UnlikeRoute} /\ res'.status = 200)
       => LET u == req'.token.user.id
              id == req'.id
              old == posts[id].likes
              new == posts'[id].likes
          IN  /\ Verifies(req'.token) /\ Exists(id)
              /\ DOMAIN posts' = DOMAIN posts
              /\ \A o \in DOMAIN posts : o # id => posts'[o] = posts[o]
              /\ posts' = [posts EXCEPT ![id].likes = new]
              /\ NotBy(new, u) = NotBy(old, u)
              /\ res' = Json(200, [type |-> "likes", likes |-> new])
              /\ req'.route = LikeRoute
                 => ~Liked(old, u) /\ new = <<[user |-> u]>> \o old
              /\ req'.route = UnlikeRoute
                 => Liked(old, u) /\ new = NotBy(old, u)]_vars

\* u liked a post that the other identity had liked before, while the other
\* post carries a like as well
C18_Witness ==
    /\ req.route = LikeRoute
    /\ res.status = 200
    /\ Len(posts[req.id].likes) = 2
    /\ \E o \in DOMAIN posts : o # req.id /\ posts[o].likes # <<>>

----------------------------------------------------------------------------
(* Claims about the required fields of an entry, under SpecProfile *)

AddExperienceRoute == "PUT /api/profile/experience"
AddEducationRoute == "PUT /api/profile/education"
Required(route) ==
    IF route = AddExperienceRoute
    THEN << <<"title", "Title is required">>, <<"company", "Company is required">>,
            <<"from", "From date is required">> >>
    ELSE << <<"school", "School is required">>, <<"degree", "Degree is required">>,
            <<"fieldofstudy", "Field of study is required">>,
            <<"from", "From date is required">> >>
\* the messages of the required fields the body lacks, in order
RECURSIVE MissingIn(_, _)
MissingIn(body, required) ==
    IF required = <<>> THEN <<>>
    ELSE (IF IsEmpty(body[Head(required)[1]]) THEN <<Head(required)[2]>> ELSE <<>>)
         \o MissingIn(body, Tail(required))

\* C17: an add-experience (add-education) request by an identity that has a
\* profile, lacking a required field, is answered 400 with the errors of all
\* the fields it lacks, and the stored profiles are unchanged.
C17_RequiredFields ==
    [][(/\ req'.route \in {AddExperienceRoute, AddEducationRoute}
        /\ Verifies(req'.token)
        /\ ProfilesOf(profiles, req'.token.user.id) # {}
        /\ MissingIn(req'.body, Required(req'.route)) # <<>>)
       => /\ res' = Errors(400, MissingIn(req'.body, Required(req'.route)))
          /\ profiles' = profiles]_vars

----------------------------------------------------------------------------
(* Claims about failures and responses *)

\* a call of the request in hand failed unexpectedly
Faulted(r) == "fault" \in DOMAIN r /\ r.fault # NoFault
ServerError(out) == out.status = 500 /\ out.body.type = "text"

\* C16, under SpecFaults: whenever a store call, the token signing or the
\* outbound request of the request in hand fails, the handler catches the
\* failure and answers 500 with a generic message: nothing escapes the
\* handler, and the request is answered.
C16_FailuresAnswered ==
    (ran /\ Faulted(req)) => ~uncaught /\ sent # <<>> /\ ServerError(res)

\* C19, under SpecComments: every request is answered with exactly one
\* response; no handler calls res.send / res.json a second time.
C19_SingleResponse ==
    req.route # "none" => Len(sent) = 1

----------------------------------------------------------------------------
(* Claims about what a success response says of the store *)

\* process p's request is answered in this step
Answers(p) ==
    /\ proc[p].pc # "saving"
    /\ proc'[p].pc \in {"saving", "done"}
    /\ proc'[p] # proc[p]

\* C21, under SpecRace: when Delete comment answers with success (the
\* updated comments list), the removal is already persisted: at the moment
\* of the response the stored post's comments list equals the returned list,
\* so no success response is sent for a removal whose save is still pending.
C21_DeleteCommentPersisted ==
    [][\A p \in Procs :
          (/\ Answers(p)
           /\ proc'[p].req.route = DeleteCommentRoute
           /\ proc'[p].res.status = 200)
          => posts'[proc'[p].req.id].comments = proc'[p].res.body.comments]_vars

\* C22, under SpecPosts: a Like, Unlike or Comment request (with a text) of
\* a verified caller whose post id is well-formed but resolves to no post is
\* answered with NotFound (400 / 404), not with 500, and changes nothing in
\* the store.
C22_MissingPostNotFound ==
    [][(/\ req'.route \in {LikeRoute, UnlikeRoute, CommentRoute}
        /\ Verifies(req'.token)
        /\ IsObjectId(req'.id)
        /\ ~Exists(req'.id)
        /\ req'.route = CommentRoute => req'.text # "")
       => /\ res'.status \in {400, 404}
          /\ StoreUnchanged]_vars

====
